---------------------------- MODULE Spec2Model ----------------------------
(***************************************************************************)
(* ferritebar: the two Wayland watchers (src/modules/taskbar.rs and        *)
(* src/modules/workspaces.rs) and their channel bridge to the GTK thread.  *)
(*                                                                         *)
(* Each watcher owns its registry and runs on its own blocking thread; the *)
(* two share no state.  A behaviour follows one watcher thread (variable   *)
(* `watcher`), the GTK consumer of its events channel and the compositor   *)
(* that feeds it protocol events.                                          *)
(*                                                                         *)
(* Option<T> is modelled as a sequence of length 0 (None) or 1 (Some).     *)
(* Wire byte arrays are sequences of bytes; words are decoded as the code  *)
(* decodes them.                                                           *)
(***************************************************************************)
EXTENDS Integers, Sequences, FiniteSets, TLC

\* ---------------------------------------------------------------- bounds

\* toplevel handle objects the compositor creates during a run
MaxToplevels == 2
\* workspace handle objects the compositor creates during a run
MaxWorkspaces == 2
\* workspace group handle objects the compositor creates during a run
MaxGroups == 2
\* protocol events the compositor sends during a run
MaxEvents == 5
\* requests the GTK thread submits during a run
MaxRequests == 2
\* capacity of an events channel (the program's are 32 and 8, see build)
EventCap == 2
\* capacity of a request channel (the program's are 16 and 8, see build)
RequestCap == 2
\* config reloads during a run
MaxReloads == 1
\* protocol events the compositor sends in a run that starts from InitMoved
MoveEvents == 4

\* ------------------------------------------------------------ input sets

TitleVals == {"a", "b"}
AppIdVals == {"", "x"}

\* zwlr_foreign_toplevel_handle_v1 state arrays: maximized = 0,
\* minimized = 1, activated = 2, fullscreen = 3, one 4-byte word each;
\* <<0, 2, 0, 0>> is the word 512; the last two are not a whole number of
\* words
StateArrays ==
    { <<>>,
      <<2, 0, 0, 0>>,
      <<0, 0, 0, 0>>,
      <<0, 0, 0, 0, 2, 0, 0, 0>>,
      <<1, 0, 0, 0, 3, 0, 0, 0>>,
      <<0, 2, 0, 0>>,
      <<2, 0, 0>>,
      <<2, 0, 0, 0, 1>> }

ToplevelHandles == 1..MaxToplevels

NameVals == {"a", "b"}

\* ext_workspace_handle_v1 state bitfield: active = 1, urgent = 2, hidden = 4
WsStateVals == {1, 6}

\* ext_workspace_handle_v1 workspace_capabilities: activate = 1, deactivate = 2
CapabilityVals == {1, 2}

\* coordinates arrays: (0,0), (1,0), and five bytes that hold one whole word
CoordinateArrays ==
    { <<0, 0, 0, 0, 0, 0, 0, 0>>,
      <<1, 0, 0, 0, 0, 0, 0, 0>>,
      <<0, 0, 0, 0, 1>> }

WorkspaceHandles == 1..MaxWorkspaces
GroupHandles == 1..MaxGroups

\* -------------------------------------------------------------- variables

VARIABLES
    watcher,        \* "toplevel" or "workspace": the watcher thread followed
    wire,           \* number of protocol events the compositor has sent
                    \* since the start of the behaviour
    asked,          \* number of requests the GTK thread has submitted
    assigned,       \* per registry: the (handle, id) pairs given, in order
    stale,          \* watcher threads of cleared modules that had not returned
    \* --- taskbar.rs: WaylandState
    handles,        \* Vec<HandleState>
    next_id,        \* u32
    tl_events,      \* mpsc channel ToplevelEvent (event_tx -> event_rx)
    tl_requests,    \* mpsc channel ToplevelRequest (request_tx -> request_rx)
    tl_pc,          \* position of run_toplevel_watcher
    tl_blocked,     \* the event a suspended blocking_send is holding
    tl_got,         \* blocking_dispatch has dispatched an event
    \* --- taskbar.rs: build, the GTK side
    buttons,        \* keys of the HashMap<u32, gtk::Button>
    \* --- the compositor and what each step did
    tl_obj,         \* per handle object: "none", "live" or "closed"
    tl_fin,         \* the toplevel manager has sent Finished
    tl_last,        \* per handle: what the compositor last sent of each kind
    tl_step,        \* the last protocol event dispatched and what it sent
    tl_calls,       \* the last request drain: what it took and what it called
    tl_news,        \* per id: number of New events sent
    tl_log,         \* what build's error! has logged about the watcher
    \* --- workspaces.rs: WaylandState
    workspaces,     \* Vec<WorkspaceState>
    groups,         \* Vec<WorkspaceGroupState>
    next_workspace_id,
    next_group_id,
    next_serial,
    finished,
    ws_events,      \* mpsc channel WorkspaceEvent (event_tx -> event_rx)
    ws_requests,    \* mpsc channel WorkspaceRequest
    ws_pc,          \* position of run_workspace_watcher
    ws_blocked,     \* the event a suspended blocking_send is holding
    \* --- workspaces.rs: build, the GTK side
    entries,        \* ids of the WorkspaceInfo the buttons were built from
    \* --- the compositor and what each step did
    ws_obj,         \* per workspace handle object: "none", "live", "removed"
    grp_obj,        \* per group handle object: "none", "live", "removed"
    ws_member,      \* per workspace: groups it has entered and not left
    ws_last,        \* per workspace: what the compositor last sent, and the
                    \* group it last entered
    ws_step,        \* the last protocol event dispatched and what it sent
    ws_calls        \* the last request drain: what it took and what it called

tlVars == <<handles, next_id, tl_events, tl_requests, tl_pc, tl_blocked,
            tl_got, buttons, tl_obj, tl_fin, tl_last, tl_step, tl_calls,
            tl_news, tl_log>>

wsVars == <<workspaces, groups, next_workspace_id, next_group_id,
            next_serial, finished, ws_events, ws_requests, ws_pc, ws_blocked,
            entries, ws_obj, grp_obj, ws_member, ws_last, ws_step, ws_calls>>

\* ------------------------------------------------------ helper operators

None == <<>>
Some(x) == <<x>>

\* Iterator::position(|h| h.handle == *handle): first index, or 0
RECURSIVE PositionFrom(_, _, _)
PositionFrom(vec, handle, i) ==
    IF i > Len(vec) THEN 0
    ELSE IF vec[i].handle = handle THEN i
    ELSE PositionFrom(vec, handle, i + 1)

Position(vec, handle) == PositionFrom(vec, handle, 1)

\* the id recorded in `given` for the handle object h
IdGiven(given, h) ==
    (CHOOSE p \in {given[i] : i \in 1..Len(given)} : p.handle = h).id

Given(h, id) == [handle |-> h, id |-> id]

\* mutant: the increment is lost
Bump_Stuck(counter) == counter

\* `let id = state.next_id; state.next_id += 1;` (and the workspace, group
\* and serial counters): the counter after the increment
Bump(counter) == counter + 1

\* Vec::remove(idx)
RemoveAt(vec, idx) ==
    [i \in 1..(Len(vec) - 1) |-> IF i < idx THEN vec[i] ELSE vec[i + 1]]

\* u32::from_le_bytes
FromLeBytes(b) == b[1] + 256 * b[2] + 65536 * b[3] + 16777216 * b[4]

STATE_ACTIVATED == 2

\* mutant: only the first word is looked at
Focused_FirstWord(wl_state) ==
    IF Len(wl_state) >= 4
    THEN FromLeBytes(SubSeq(wl_state, 1, 4)) = STATE_ACTIVATED
    ELSE FALSE

\* the State arm's `focused`: any whole word of the array is STATE_ACTIVATED
Focused(wl_state) ==
    IF Len(wl_state) >= 4
    THEN \E i \in 0..((Len(wl_state) \div 4) - 1) :
            FromLeBytes(SubSeq(wl_state, i * 4 + 1, i * 4 + 4)) = STATE_ACTIVATED
    ELSE FALSE

ToplevelInfo(hs) ==
    [id |-> hs.id, app_id |-> hs.pending_app_id, title |-> hs.pending_title,
     focused |-> hs.pending_focused]

New(info) == [kind |-> "New", info |-> info]
Update(info) == [kind |-> "Update", info |-> info]
Remove(id) == [kind |-> "Remove", id |-> id]

\* HandleState has no capability field and no arm of the handle dispatch
\* stores one: the capabilities recorded for a handle are none
HandleCapabilities(handle) == {}

NewHandleState(id, handle, title, app_id) ==
    [id |-> id, handle |-> handle, pending_title |-> title,
     pending_app_id |-> app_id, pending_focused |-> FALSE,
     initial_done |-> FALSE]


\* ------------------------------------------------- tokio mpsc, both sides

\* mutant: the value is queued in front of the ones waiting
blocking_send_Front(chan, cap, ev) ==
    IF Len(chan) < cap
    THEN [chan |-> <<ev>> \o chan, held |-> None]
    ELSE [chan |-> chan, held |-> Some(ev)]

\* Sender::blocking_send on a channel of capacity cap: the value is queued
\* when a slot is free; otherwise the calling thread is parked holding it
\* until the receiver frees a slot.
blocking_send(chan, cap, ev) ==
    IF Len(chan) < cap
    THEN [chan |-> Append(chan, ev), held |-> None]
    ELSE [chan |-> chan, held |-> Some(ev)]

\* what a handler that sends the events `evs` (none or one) leaves behind
SendAll(chan, cap, evs) ==
    IF evs = <<>> THEN [chan |-> chan, held |-> None]
    ELSE blocking_send(chan, cap, evs[1])

\* manager.commit() and conn.flush() as entries of a call list
Commit == [call |-> "commit", handle |-> 0]
Flush == [call |-> "flush", handle |-> 0]

\* ------------------------------------------------ taskbar.rs: the watcher

TlInit ==
    /\ handles = <<>>
    /\ next_id = 1
    /\ tl_events = <<>>
    /\ tl_requests = <<>>
    /\ tl_pc = "bind"
    /\ tl_blocked = None
    /\ tl_got = FALSE
    /\ buttons = {}
    /\ tl_obj = [h \in ToplevelHandles |-> "none"]
    /\ tl_fin = FALSE
    /\ tl_last = [h \in ToplevelHandles |->
                    [title |-> None, app_id |-> None, focused |-> None]]
    /\ tl_step = [ev |-> "none", h |-> 0, id |-> 0, sent |-> <<>>]
    /\ tl_calls = [requests |-> <<>>, calls |-> <<>>]
    /\ tl_news = [i \in 1..MaxToplevels |-> 0]
    /\ tl_log = <<>>

\* the thread is inside queue.roundtrip or queue.blocking_dispatch and is
\* not parked in a send: a protocol event can be dispatched to a handler
TlDispatching ==
    /\ watcher = "toplevel"
    /\ tl_pc \in {"roundtrip", "dispatch"}
    /\ tl_blocked = None

\* the compositor may send one more event
TlWireOpen == wire < MaxEvents /\ ~tl_fin

\* bookkeeping shared by the handlers: the event is counted, recorded as
\* the last step, and what it sends goes through blocking_send
TlDispatched(ev, h, id, evs) ==
    LET r == SendAll(tl_events, EventCap, evs) IN
    /\ wire' = wire + 1
    /\ tl_got' = TRUE
    /\ tl_events' = r.chan
    /\ tl_blocked' = r.held
    /\ tl_step' = [ev |-> ev, h |-> h, id |-> id, sent |-> evs]
    /\ tl_news' = IF evs # <<>> /\ evs[1].kind = "New"
                  THEN [tl_news EXCEPT ![evs[1].info.id] = @ + 1]
                  ELSE tl_news
    /\ UNCHANGED <<watcher, stale, asked, tl_requests, tl_pc, buttons, tl_calls, tl_log,
                   wsVars>>

\* wayland-client's BindError for a global the registry does not list
NotPresent == "the requested global was not found in the registry"

\* the closure build spawns (taskbar.rs 207-211): an Err returned by
\* run_toplevel_watcher is logged with error!, an Ok is not
Logged(result) ==
    IF result.ok THEN <<>>
    ELSE <<[level |-> "error", msg |-> "Toplevel watcher failed",
            reason |-> result.err]>>

\* mutant: the Err is swallowed
TlBind_Silent(ok) ==
    /\ watcher = "toplevel"
    /\ tl_pc = "bind"
    /\ tl_pc' = IF ok THEN "roundtrip" ELSE "failed"
    /\ UNCHANGED wsVars
    /\ UNCHANGED <<watcher, stale, assigned, wire, asked, handles, next_id, tl_events,
                   tl_requests, tl_blocked, tl_got, buttons, tl_obj, tl_fin,
                   tl_last, tl_step, tl_calls, tl_news, tl_log>>

\* globals.bind of the manager and the seat (taskbar.rs 341-344): on Err the
\* `?` makes run_toplevel_watcher return it, before the roundtrip and the
\* loop, and build logs it
TlBind(ok) ==
    /\ watcher = "toplevel"
    /\ tl_pc = "bind"
    /\ tl_pc' = IF ok THEN "roundtrip" ELSE "failed"
    /\ tl_log' = IF ok THEN tl_log
                 ELSE tl_log \o Logged([ok |-> FALSE, err |-> NotPresent])
    /\ UNCHANGED wsVars
    /\ UNCHANGED <<watcher, stale, assigned, wire, asked, handles, next_id, tl_events,
                   tl_requests, tl_blocked, tl_got, buttons, tl_obj, tl_fin,
                   tl_last, tl_step, tl_calls, tl_news>>

\* queue.roundtrip returns (taskbar.rs 355): the loop starts
TlRoundtripDone ==
    /\ watcher = "toplevel"
    /\ tl_pc = "roundtrip"
    /\ tl_blocked = None
    /\ tl_pc' = "drain"
    /\ UNCHANGED wsVars
    /\ UNCHANGED <<watcher, stale, assigned, wire, asked, handles, next_id, tl_events,
                   tl_requests, tl_blocked, tl_got, buttons, tl_obj, tl_fin,
                   tl_last, tl_step, tl_calls, tl_news, tl_log>>

\* manager event Toplevel: a new handle object; the handler only logs
ManagerToplevel(h) ==
    /\ TlDispatching /\ TlWireOpen
    /\ tl_obj[h] = "none"
    /\ \A g \in ToplevelHandles : g < h => tl_obj[g] # "none"
    /\ tl_obj' = [tl_obj EXCEPT ![h] = "live"]
    /\ TlDispatched("Toplevel", h, 0, <<>>)
    /\ UNCHANGED <<assigned, handles, next_id, tl_fin, tl_last>>

\* manager event Finished: the handler only logs a warning
ManagerFinished ==
    /\ TlDispatching /\ TlWireOpen
    /\ tl_fin' = TRUE
    /\ TlDispatched("Finished", 0, 0, <<>>)
    /\ UNCHANGED <<assigned, handles, next_id, tl_obj, tl_last>>

\* handle event Title
HandleTitle(h, title) ==
    LET idx == Position(handles, h) IN
    /\ TlDispatching /\ TlWireOpen
    /\ tl_obj[h] = "live"
    /\ IF idx # 0
       THEN /\ handles' = [handles EXCEPT ![idx].pending_title = title]
            /\ next_id' = next_id
       ELSE /\ handles' = Append(handles, NewHandleState(next_id, h, title, ""))
            /\ next_id' = Bump(next_id)
    /\ assigned' = IF idx # 0 THEN assigned
                   ELSE [assigned EXCEPT !.tl = Append(@, Given(h, next_id))]
    /\ tl_last' = [tl_last EXCEPT ![h].title = Some(title)]
    /\ TlDispatched("Title", h, IF idx # 0 THEN handles[idx].id ELSE next_id, <<>>)
    /\ UNCHANGED <<tl_obj, tl_fin>>

\* handle event AppId
HandleAppId(h, app_id) ==
    LET idx == Position(handles, h) IN
    /\ TlDispatching /\ TlWireOpen
    /\ tl_obj[h] = "live"
    /\ IF idx # 0
       THEN /\ handles' = [handles EXCEPT ![idx].pending_app_id = app_id]
            /\ next_id' = next_id
       ELSE /\ handles' = Append(handles, NewHandleState(next_id, h, "", app_id))
            /\ next_id' = Bump(next_id)
    /\ assigned' = IF idx # 0 THEN assigned
                   ELSE [assigned EXCEPT !.tl = Append(@, Given(h, next_id))]
    /\ tl_last' = [tl_last EXCEPT ![h].app_id = Some(app_id)]
    /\ TlDispatched("AppId", h, IF idx # 0 THEN handles[idx].id ELSE next_id, <<>>)
    /\ UNCHANGED <<tl_obj, tl_fin>>

\* handle event State: nothing is stored when the handle has no entry
HandleState(h, wl_state) ==
    LET idx == Position(handles, h)
        focused == Focused(wl_state) IN
    /\ TlDispatching /\ TlWireOpen
    /\ tl_obj[h] = "live"
    /\ handles' = IF idx # 0
                  THEN [handles EXCEPT ![idx].pending_focused = focused]
                  ELSE handles
    /\ tl_last' = [tl_last EXCEPT ![h].focused = Some(focused)]
    /\ TlDispatched("State", h, IF idx # 0 THEN handles[idx].id ELSE 0, <<>>)
    /\ UNCHANGED <<assigned, next_id, tl_obj, tl_fin>>

\* mutant: initial_done is not consulted
DoneEvents_AlwaysNew(hs) ==
    IF ToplevelInfo(hs).app_id # "" THEN <<New(ToplevelInfo(hs))>>
    ELSE IF hs.initial_done THEN <<Update(ToplevelInfo(hs))>>
    ELSE <<>>

\* mutant: the empty app_id is not skipped
DoneEvents_NoSkip(hs) ==
    IF hs.initial_done THEN <<Update(ToplevelInfo(hs))>>
    ELSE <<New(ToplevelInfo(hs))>>

\* what the Done arm sends for the entry hs
DoneEvents(hs) ==
    IF hs.initial_done THEN <<Update(ToplevelInfo(hs))>>
    ELSE IF ToplevelInfo(hs).app_id # "" THEN <<New(ToplevelInfo(hs))>>
    ELSE <<>>

\* handle event Done
HandleDone(h) ==
    LET idx == Position(handles, h) IN
    /\ TlDispatching /\ TlWireOpen
    /\ tl_obj[h] = "live"
    /\ IF idx # 0
       THEN /\ handles' = IF ~handles[idx].initial_done
                             /\ handles[idx].pending_app_id # ""
                          THEN [handles EXCEPT ![idx].initial_done = TRUE]
                          ELSE handles
            /\ TlDispatched("Done", h, handles[idx].id, DoneEvents(handles[idx]))
       ELSE /\ handles' = handles
            /\ TlDispatched("Done", h, 0, <<>>)
    /\ UNCHANGED <<assigned, next_id, tl_obj, tl_fin, tl_last>>

\* handle event Closed
HandleClosed(h) ==
    LET idx == Position(handles, h) IN
    /\ TlDispatching /\ TlWireOpen
    /\ tl_obj[h] = "live"
    /\ tl_obj' = [tl_obj EXCEPT ![h] = "closed"]
    /\ IF idx # 0
       THEN /\ handles' = RemoveAt(handles, idx)
            /\ TlDispatched("Closed", h, handles[idx].id, <<Remove(handles[idx].id)>>)
       ELSE /\ handles' = handles
            /\ TlDispatched("Closed", h, 0, <<>>)
    /\ UNCHANGED <<assigned, next_id, tl_fin, tl_last>>


\* Iterator::find(|h| h.id == id): index of the first entry with that id, or 0
RECURSIVE FindIdFrom(_, _, _)
FindIdFrom(vec, id, i) ==
    IF i > Len(vec) THEN 0
    ELSE IF vec[i].id = id THEN i
    ELSE FindIdFrom(vec, id, i + 1)

FindId(vec, id) == FindIdFrom(vec, id, 1)

\* mutant: the call is made whether or not find returned an entry
RequestCalls_NoLookup(request) ==
    LET idx == FindId(handles, request.id)
        target == IF idx = 0 THEN 0 ELSE handles[idx].handle IN
    IF request.kind = "Activate"
    THEN <<[call |-> "activate", handle |-> target]>>
    ELSE <<[call |-> "close", handle |-> target]>>

\* the protocol calls one ToplevelRequest turns into (taskbar.rs 361-374);
\* state.seat is Some(seat) from construction on
RequestCalls(request) ==
    LET idx == FindId(handles, request.id) IN
    IF idx = 0 THEN <<>>
    ELSE IF request.kind = "Activate"
         THEN <<[call |-> "activate", handle |-> handles[idx].handle]>>
         ELSE <<[call |-> "close", handle |-> handles[idx].handle]>>

\* mutant: the requests are taken newest first
RECURSIVE DrainCalls_Reversed(_)
DrainCalls_Reversed(reqs) ==
    IF reqs = <<>> THEN <<>>
    ELSE DrainCalls_Reversed(Tail(reqs)) \o RequestCalls(Head(reqs))

\* while let Ok(request) = request_rx.try_recv(): the calls of the whole drain
RECURSIVE DrainCalls(_)
DrainCalls(reqs) ==
    IF reqs = <<>> THEN <<>>
    ELSE RequestCalls(Head(reqs)) \o DrainCalls(Tail(reqs))

\* top of the loop: drain the request channel, then conn.flush, then enter
\* queue.blocking_dispatch (taskbar.rs 358-381)
TlDrain ==
    /\ watcher = "toplevel"
    /\ tl_pc = "drain"
    /\ tl_calls' = [requests |-> tl_requests,
                     calls |-> DrainCalls(tl_requests) \o <<Flush>>]
    /\ tl_requests' = <<>>
    /\ tl_pc' = "dispatch"
    /\ tl_got' = FALSE
    /\ UNCHANGED wsVars
    /\ UNCHANGED <<watcher, stale, assigned, wire, asked, handles, next_id, tl_events,
                   tl_blocked, buttons, tl_obj, tl_fin, tl_last, tl_step,
                   tl_news, tl_log>>

\* queue.blocking_dispatch returns once it has dispatched events
TlDispatchReturn ==
    /\ watcher = "toplevel"
    /\ tl_pc = "dispatch"
    /\ tl_blocked = None
    /\ tl_got
    /\ tl_pc' = "drain"
    /\ UNCHANGED wsVars
    /\ UNCHANGED <<watcher, stale, assigned, wire, asked, handles, next_id, tl_events,
                   tl_requests, tl_blocked, tl_got, buttons, tl_obj, tl_fin,
                   tl_last, tl_step, tl_calls, tl_news, tl_log>>

\* a parked blocking_send gets its slot and the handler returns
TlSendResume ==
    /\ watcher = "toplevel"
    /\ tl_blocked # None
    /\ Len(tl_events) < EventCap
    /\ tl_events' = Append(tl_events, tl_blocked[1])
    /\ tl_blocked' = None
    /\ UNCHANGED wsVars
    /\ UNCHANGED <<watcher, stale, assigned, wire, asked, handles, next_id, tl_requests,
                   tl_pc, tl_got, buttons, tl_obj, tl_fin, tl_last, tl_step,
                   tl_calls, tl_news, tl_log>>

\* ---------------------------------------------- taskbar.rs: the GTK side

\* the callback of recv_on_main_thread (taskbar.rs 232-289) on the button map
ButtonsAfter(event) ==
    IF event.kind = "New" THEN buttons \cup {event.info.id}
    ELSE IF event.kind = "Remove" THEN buttons \ {event.id}
    ELSE buttons

\* rx.recv().await yields the oldest event and the callback runs on it
TlRecv ==
    /\ watcher = "toplevel"
    /\ tl_events # <<>>
    /\ buttons' = ButtonsAfter(Head(tl_events))
    /\ tl_events' = Tail(tl_events)
    /\ UNCHANGED wsVars
    /\ UNCHANGED <<watcher, stale, assigned, wire, asked, handles, next_id, tl_requests,
                   tl_pc, tl_blocked, tl_got, tl_obj, tl_fin, tl_last,
                   tl_step, tl_calls, tl_news, tl_log>>

\* a click on the button of `id`: left sends Activate(id), middle Close(id)
TlClick(kind, id) ==
    /\ watcher = "toplevel"
    /\ id \in buttons
    /\ asked < MaxRequests
    /\ tl_pc # "failed"
    /\ Len(tl_requests) < RequestCap
    /\ tl_requests' = Append(tl_requests, [kind |-> kind, id |-> id])
    /\ asked' = asked + 1
    /\ UNCHANGED wsVars
    /\ UNCHANGED <<watcher, stale, assigned, wire, handles, next_id, tl_events, tl_pc,
                   tl_blocked, tl_got, buttons, tl_obj, tl_fin, tl_last,
                   tl_step, tl_calls, tl_news, tl_log>>

TlNext ==
    \/ \E ok \in BOOLEAN : TlBind(ok)
    \/ TlRoundtripDone
    \/ TlDrain
    \/ TlDispatchReturn
    \/ TlSendResume
    \/ \E h \in ToplevelHandles : ManagerToplevel(h)
    \/ ManagerFinished
    \/ \E h \in ToplevelHandles, title \in TitleVals : HandleTitle(h, title)
    \/ \E h \in ToplevelHandles, app_id \in AppIdVals : HandleAppId(h, app_id)
    \/ \E h \in ToplevelHandles, wl_state \in StateArrays : HandleState(h, wl_state)
    \/ \E h \in ToplevelHandles : HandleDone(h)
    \/ \E h \in ToplevelHandles : HandleClosed(h)
    \/ TlRecv
    \/ \E kind \in {"Activate", "Close"}, id \in 1..MaxToplevels : TlClick(kind, id)

\* --------------------------------------------- workspaces.rs: the watcher

STATE_ACTIVE == 1
STATE_URGENT == 2
STATE_HIDDEN == 4

\* (value & mask) != 0 for a mask of one bit
BitSet(value, mask) == (value \div mask) % 2 = 1

\* parse_u32_array: whole 4-byte words, trailing bytes ignored; from_ne_bytes
\* on the little-endian targets the bar is built for
RECURSIVE parse_u32_array(_)
parse_u32_array(data) ==
    IF Len(data) < 4 THEN <<>>
    ELSE <<FromLeBytes(SubSeq(data, 1, 4))>>
            \o parse_u32_array(SubSeq(data, 5, Len(data)))

NewWorkspaceState(id, handle, serial) ==
    [internal_id |-> id, handle |-> handle, name |-> "", coords |-> <<>>,
     state |-> 0, capabilities |-> 0, group_id |-> None, removed |-> FALSE,
     serial |-> serial]

NewWorkspaceGroupState(id, handle) ==
    [id |-> id, handle |-> handle, removed |-> FALSE]

OrdCmp(a, b) == IF a < b THEN "Less" ELSE IF a > b THEN "Greater" ELSE "Equal"

\* Vec<u32>::cmp: lexicographic, a proper prefix is Less
RECURSIVE VecCmp(_, _)
VecCmp(a, b) ==
    IF a = <<>> /\ b = <<>> THEN "Equal"
    ELSE IF a = <<>> THEN "Less"
    ELSE IF b = <<>> THEN "Greater"
    ELSE IF a[1] # b[1] THEN OrdCmp(a[1], b[1])
    ELSE VecCmp(Tail(a), Tail(b))

\* mutant: coords are not compared
SortCmp_SerialOnly(a, b) == OrdCmp(a.serial, b.serial)

\* the closure given to list.sort_by (workspaces.rs 414-423)
SortCmp(a, b) ==
    IF a.coords # <<>> \/ b.coords # <<>>
    THEN IF VecCmp(a.coords, b.coords) = "Equal"
         THEN OrdCmp(a.serial, b.serial)
         ELSE VecCmp(a.coords, b.coords)
    ELSE OrdCmp(a.serial, b.serial)

\* stable insertion of x into a sorted list: before the first element that
\* compares Greater than x
RECURSIVE InsertSorted(_, _)
InsertSorted(list, x) ==
    IF list = <<>> THEN <<x>>
    ELSE IF SortCmp(x, Head(list)) = "Less" THEN <<x>> \o list
    ELSE <<Head(list)>> \o InsertSorted(Tail(list), x)

\* slice::sort_by: a stable sort by SortCmp
RECURSIVE SortBy(_)
SortBy(list) ==
    IF list = <<>> THEN <<>>
    ELSE InsertSorted(SortBy(SubSeq(list, 1, Len(list) - 1)), list[Len(list)])

\* ws.group_id.unwrap_or(0)
GroupOf(ws) == IF ws.group_id = None THEN 0 ELSE ws.group_id[1]

\* mutant: removed entries are not skipped
RECURSIVE Grouped_KeepRemoved(_, _)
Grouped_KeepRemoved(wss, group_id) ==
    IF wss = <<>> THEN <<>>
    ELSE IF GroupOf(Head(wss)) = group_id
         THEN <<Head(wss)>> \o Grouped_KeepRemoved(Tail(wss), group_id)
         ELSE Grouped_KeepRemoved(Tail(wss), group_id)

\* the list grouped[group_id]: the entries not removed, in registry order
RECURSIVE Grouped(_, _)
Grouped(wss, group_id) ==
    IF wss = <<>> THEN <<>>
    ELSE IF ~Head(wss).removed /\ GroupOf(Head(wss)) = group_id
         THEN <<Head(wss)>> \o Grouped(Tail(wss), group_id)
         ELSE Grouped(Tail(wss), group_id)

\* mutant: urgent is read from the active bit
WorkspaceInfo_UrgentFromActive(ws, idx, group_id) ==
    [id |-> ws.internal_id, name |-> ws.name, index |-> idx,
     group |-> group_id,
     active |-> BitSet(ws.state, STATE_ACTIVE),
     urgent |-> BitSet(ws.state, STATE_ACTIVE),
     hidden |-> BitSet(ws.state, STATE_HIDDEN)]

WorkspaceInfo(ws, idx, group_id) ==
    [id |-> ws.internal_id, name |-> ws.name, index |-> idx,
     group |-> group_id,
     active |-> BitSet(ws.state, STATE_ACTIVE),
     urgent |-> BitSet(ws.state, STATE_URGENT),
     hidden |-> BitSet(ws.state, STATE_HIDDEN)]

\* the WorkspaceInfo of one sorted group list, index = position
GroupInfos(list, group_id) ==
    [i \in 1..Len(list) |-> WorkspaceInfo(list[i], i, group_id)]

\* the BTreeMap walk: group ids in ascending order from g up to last
RECURSIVE SnapshotFrom(_, _, _)
SnapshotFrom(wss, g, last) ==
    IF g > last THEN <<>>
    ELSE GroupInfos(SortBy(Grouped(wss, g)), g) \o SnapshotFrom(wss, g + 1, last)

\* mutant: the workspaces without a group are left out
BuildSnapshot_SkipUngrouped(wss, last) == SnapshotFrom(wss, 1, last)

\* the snapshot emit_snapshot builds; every group id is below next_group_id
BuildSnapshot(wss, last) == SnapshotFrom(wss, 0, last)

\* Vec::retain(|w| !w.removed)
RECURSIVE Retain(_)
Retain(vec) ==
    IF vec = <<>> THEN <<>>
    ELSE IF Head(vec).removed THEN Retain(Tail(vec))
    ELSE <<Head(vec)>> \o Retain(Tail(vec))

Snapshot(list) == [kind |-> "Snapshot", list |-> list]
Unavailable(reason) == [kind |-> "Unavailable", reason |-> reason]

WsInit ==
    /\ workspaces = <<>>
    /\ groups = <<>>
    /\ next_workspace_id = 1
    /\ next_group_id = 1
    /\ next_serial = 1
    /\ finished = FALSE
    /\ ws_events = <<>>
    /\ ws_requests = <<>>
    /\ ws_pc = "bind"
    /\ ws_blocked = None
    /\ entries = {}
    /\ ws_obj = [w \in WorkspaceHandles |-> "none"]
    /\ grp_obj = [g \in GroupHandles |-> "none"]
    /\ ws_member = [w \in WorkspaceHandles |-> {}]
    /\ ws_last = [w \in WorkspaceHandles |->
                    [name |-> None, state |-> None, group |-> None,
                     entered |-> None]]
    /\ ws_step = [ev |-> "none", h |-> 0, sent |-> <<>>]
    /\ ws_calls = [requests |-> <<>>, calls |-> <<>>]

\* the thread is inside queue.roundtrip or queue.dispatch_pending and is not
\* parked in a send: a protocol event can be dispatched to a handler
WsDispatching ==
    /\ watcher = "workspace"
    /\ ws_pc \in {"roundtrip", "dispatch1", "dispatch2"}
    /\ ws_blocked = None

\* the compositor may send one more event (none after the manager's Finished)
WsWireOpen == wire < MaxEvents /\ ~finished

\* bookkeeping shared by the handlers
WsDispatched(ev, h, evs) ==
    LET r == SendAll(ws_events, EventCap, evs) IN
    /\ wire' = wire + 1
    /\ ws_events' = r.chan
    /\ ws_blocked' = r.held
    /\ ws_step' = [ev |-> ev, h |-> h, sent |-> evs]
    /\ UNCHANGED <<watcher, stale, asked, ws_requests, ws_pc, entries, ws_calls, tlVars>>

\* mutant: no return after the Unavailable is sent
WsBind_NoReturn(ok) ==
    LET r == blocking_send(ws_events, EventCap,
                 Unavailable("ext_workspace_v1 not supported by compositor")) IN
    /\ watcher = "workspace"
    /\ ws_pc = "bind"
    /\ ws_pc' = "roundtrip"
    /\ IF ok
       THEN UNCHANGED <<ws_events, ws_blocked>>
       ELSE /\ ws_events' = r.chan
            /\ ws_blocked' = r.held
    /\ UNCHANGED <<watcher, stale, assigned, wire, asked, workspaces, groups, next_workspace_id,
                   next_group_id, next_serial, finished, ws_requests, entries,
                   ws_obj, grp_obj, ws_member, ws_last, ws_step,
                   ws_calls, tlVars>>

\* globals.bind of the manager (workspaces.rs 296-304): on Err the watcher
\* sends Unavailable and returns
WsBind(ok) ==
    LET r == blocking_send(ws_events, EventCap,
                 Unavailable("ext_workspace_v1 not supported by compositor")) IN
    /\ watcher = "workspace"
    /\ ws_pc = "bind"
    /\ IF ok
       THEN /\ ws_pc' = "roundtrip"
            /\ UNCHANGED <<ws_events, ws_blocked>>
       ELSE /\ ws_pc' = "unavailable"
            /\ ws_events' = r.chan
            /\ ws_blocked' = r.held
    /\ UNCHANGED <<watcher, stale, assigned, wire, asked, workspaces, groups, next_workspace_id,
                   next_group_id, next_serial, finished, ws_requests, entries,
                   ws_obj, grp_obj, ws_member, ws_last, ws_step,
                   ws_calls, tlVars>>

\* queue.roundtrip returns (workspaces.rs 319): the loop starts
WsRoundtripDone ==
    /\ watcher = "workspace"
    /\ ws_pc = "roundtrip"
    /\ ws_blocked = None
    /\ ws_pc' = "drain"
    /\ UNCHANGED <<watcher, stale, assigned, wire, asked, workspaces, groups, next_workspace_id,
                   next_group_id, next_serial, finished, ws_events,
                   ws_requests, ws_blocked, entries, ws_obj, grp_obj,
                   ws_member, ws_last, ws_step, ws_calls, tlVars>>

\* manager event WorkspaceGroup
ManagerWorkspaceGroup(g) ==
    /\ WsDispatching /\ WsWireOpen
    /\ grp_obj[g] = "none"
    /\ \A k \in GroupHandles : k < g => grp_obj[k] # "none"
    /\ grp_obj' = [grp_obj EXCEPT ![g] = "live"]
    /\ groups' = Append(groups, NewWorkspaceGroupState(next_group_id, g))
    /\ next_group_id' = Bump(next_group_id)
    /\ assigned' = [assigned EXCEPT !.grp = Append(@, Given(g, next_group_id))]
    /\ WsDispatched("WorkspaceGroup", g, <<>>)
    /\ UNCHANGED <<workspaces, next_workspace_id, next_serial, finished,
                   ws_obj, ws_member, ws_last>>

\* manager event Workspace
ManagerWorkspace(w) ==
    /\ WsDispatching /\ WsWireOpen
    /\ ws_obj[w] = "none"
    /\ \A k \in WorkspaceHandles : k < w => ws_obj[k] # "none"
    /\ ws_obj' = [ws_obj EXCEPT ![w] = "live"]
    /\ workspaces' = Append(workspaces,
                            NewWorkspaceState(next_workspace_id, w, next_serial))
    /\ next_workspace_id' = Bump(next_workspace_id)
    /\ next_serial' = Bump(next_serial)
    /\ assigned' = [assigned EXCEPT !.ws = Append(@, Given(w, next_workspace_id))]
    /\ WsDispatched("Workspace", w, <<>>)
    /\ UNCHANGED <<groups, next_group_id, finished, grp_obj, ws_member,
                   ws_last>>

\* emit_snapshot (workspaces.rs 399-444): build, purge, send
ManagerDone ==
    /\ WsDispatching /\ WsWireOpen
    /\ workspaces' = Retain(workspaces)
    /\ groups' = Retain(groups)
    /\ WsDispatched("Done", 0,
                    <<Snapshot(BuildSnapshot(workspaces, next_group_id))>>)
    /\ UNCHANGED <<assigned, next_workspace_id, next_group_id, next_serial, finished,
                   ws_obj, grp_obj, ws_member, ws_last>>

\* mutant: Finished emits a snapshot too
WsManagerFinished_Emits ==
    /\ WsDispatching /\ WsWireOpen
    /\ finished' = TRUE
    /\ WsDispatched("Finished", 0,
                    <<Snapshot(BuildSnapshot(workspaces, next_group_id))>>)
    /\ UNCHANGED <<assigned, workspaces, groups, next_workspace_id, next_group_id,
                   next_serial, ws_obj, grp_obj, ws_member, ws_last>>

\* manager event Finished
WsManagerFinished ==
    /\ WsDispatching /\ WsWireOpen
    /\ finished' = TRUE
    /\ WsDispatched("Finished", 0, <<>>)
    /\ UNCHANGED <<assigned, workspaces, groups, next_workspace_id, next_group_id,
                   next_serial, ws_obj, grp_obj, ws_member, ws_last>>

\* index of the workspace entry whose handle is w, or 0
\* (state.workspaces.iter().position / iter_mut().find by handle)
WsPosition(w) == Position(workspaces, w)

\* group event WorkspaceEnter: the workspace's group_id becomes this group's id
GroupWorkspaceEnter(g, w) ==
    LET g_idx == Position(groups, g)
        w_idx == WsPosition(w) IN
    /\ WsDispatching /\ WsWireOpen
    /\ grp_obj[g] = "live" /\ ws_obj[w] = "live"
    /\ g \notin ws_member[w]
    /\ workspaces' = IF g_idx # 0 /\ w_idx # 0
                     THEN [workspaces EXCEPT ![w_idx].group_id = Some(groups[g_idx].id)]
                     ELSE workspaces
    /\ ws_member' = [ws_member EXCEPT ![w] = @ \cup {g}]
    /\ ws_last' = [ws_last EXCEPT ![w].group = Some(IdGiven(assigned.grp, g)),
                                  ![w].entered = Some(IdGiven(assigned.grp, g))]
    /\ WsDispatched("WorkspaceEnter", w, <<>>)
    /\ UNCHANGED <<assigned, groups, next_workspace_id, next_group_id, next_serial,
                   finished, ws_obj, grp_obj>>

\* group event WorkspaceLeave: the workspace's group_id becomes None
GroupWorkspaceLeave(g, w) ==
    LET g_idx == Position(groups, g)
        w_idx == WsPosition(w) IN
    /\ WsDispatching /\ WsWireOpen
    /\ grp_obj[g] = "live" /\ ws_obj[w] = "live"
    /\ g \in ws_member[w]
    /\ workspaces' = IF g_idx # 0 /\ w_idx # 0
                     THEN [workspaces EXCEPT ![w_idx].group_id = None]
                     ELSE workspaces
    /\ ws_member' = [ws_member EXCEPT ![w] = @ \ {g}]
    /\ ws_last' = [ws_last EXCEPT ![w].group = Some(0)]
    /\ WsDispatched("WorkspaceLeave", w, <<>>)
    /\ UNCHANGED <<assigned, groups, next_workspace_id, next_group_id, next_serial,
                   finished, ws_obj, grp_obj>>

\* group event Removed: the entry is flagged, not deleted
GroupRemoved(g) ==
    LET g_idx == Position(groups, g) IN
    /\ WsDispatching /\ WsWireOpen
    /\ grp_obj[g] = "live"
    /\ grp_obj' = [grp_obj EXCEPT ![g] = "removed"]
    /\ groups' = IF g_idx # 0
                 THEN [groups EXCEPT ![g_idx].removed = TRUE]
                 ELSE groups
    /\ ws_member' = [w \in WorkspaceHandles |-> ws_member[w] \ {g}]
    /\ WsDispatched("GroupRemoved", g, <<>>)
    /\ UNCHANGED <<assigned, workspaces, next_workspace_id, next_group_id, next_serial,
                   finished, ws_obj, ws_last>>

\* group events Capabilities, OutputEnter, OutputLeave: they write the
\* entry's capabilities and outputs, which nothing reads
GroupOther(g, ev) ==
    /\ WsDispatching /\ WsWireOpen
    /\ grp_obj[g] = "live"
    /\ WsDispatched(ev, g, <<>>)
    /\ UNCHANGED <<assigned, workspaces, groups, next_workspace_id, next_group_id,
                   next_serial, finished, ws_obj, grp_obj, ws_member, ws_last>>

\* workspace event Id: writes the entry's id, which nothing reads
WorkspaceId(w) ==
    /\ WsDispatching /\ WsWireOpen
    /\ ws_obj[w] = "live"
    /\ WsDispatched("Id", w, <<>>)
    /\ UNCHANGED <<assigned, workspaces, groups, next_workspace_id, next_group_id,
                   next_serial, finished, ws_obj, grp_obj, ws_member, ws_last>>

\* workspace event Name
WorkspaceName(w, name) ==
    LET ws_idx == WsPosition(w) IN
    /\ WsDispatching /\ WsWireOpen
    /\ ws_obj[w] = "live"
    /\ workspaces' = IF ws_idx # 0
                     THEN [workspaces EXCEPT ![ws_idx].name = name]
                     ELSE workspaces
    /\ ws_last' = [ws_last EXCEPT ![w].name = Some(name)]
    /\ WsDispatched("Name", w, <<>>)
    /\ UNCHANGED <<assigned, groups, next_workspace_id, next_group_id, next_serial,
                   finished, ws_obj, grp_obj, ws_member>>

\* workspace event Coordinates
WorkspaceCoordinates(w, coordinates) ==
    LET ws_idx == WsPosition(w) IN
    /\ WsDispatching /\ WsWireOpen
    /\ ws_obj[w] = "live"
    /\ workspaces' = IF ws_idx # 0
                     THEN [workspaces EXCEPT
                             ![ws_idx].coords = parse_u32_array(coordinates)]
                     ELSE workspaces
    /\ WsDispatched("Coordinates", w, <<>>)
    /\ UNCHANGED <<assigned, groups, next_workspace_id, next_group_id, next_serial,
                   finished, ws_obj, grp_obj, ws_member, ws_last>>

\* workspace event State
WorkspaceStateEv(w, ws_state) ==
    LET ws_idx == WsPosition(w) IN
    /\ WsDispatching /\ WsWireOpen
    /\ ws_obj[w] = "live"
    /\ workspaces' = IF ws_idx # 0
                     THEN [workspaces EXCEPT ![ws_idx].state = ws_state]
                     ELSE workspaces
    /\ ws_last' = [ws_last EXCEPT ![w].state = Some(ws_state)]
    /\ WsDispatched("State", w, <<>>)
    /\ UNCHANGED <<assigned, groups, next_workspace_id, next_group_id, next_serial,
                   finished, ws_obj, grp_obj, ws_member>>

\* workspace event Capabilities
WorkspaceCapabilities(w, capabilities) ==
    LET ws_idx == WsPosition(w) IN
    /\ WsDispatching /\ WsWireOpen
    /\ ws_obj[w] = "live"
    /\ workspaces' = IF ws_idx # 0
                     THEN [workspaces EXCEPT ![ws_idx].capabilities = capabilities]
                     ELSE workspaces
    /\ WsDispatched("Capabilities", w, <<>>)
    /\ UNCHANGED <<assigned, groups, next_workspace_id, next_group_id, next_serial,
                   finished, ws_obj, grp_obj, ws_member, ws_last>>

\* workspace event Removed: the entry is flagged, not deleted
WorkspaceRemoved(w) ==
    LET ws_idx == WsPosition(w) IN
    /\ WsDispatching /\ WsWireOpen
    /\ ws_obj[w] = "live"
    /\ ws_obj' = [ws_obj EXCEPT ![w] = "removed"]
    /\ workspaces' = IF ws_idx # 0
                     THEN [workspaces EXCEPT ![ws_idx].removed = TRUE]
                     ELSE workspaces
    /\ ws_member' = [ws_member EXCEPT ![w] = {}]
    /\ WsDispatched("Removed", w, <<>>)
    /\ UNCHANGED <<assigned, groups, next_workspace_id, next_group_id, next_serial,
                   finished, grp_obj, ws_last>>

\* the calls one WorkspaceRequest turns into (workspaces.rs 328-335)
RECURSIVE FindInternalId(_, _, _)
FindInternalId(vec, id, i) ==
    IF i > Len(vec) THEN 0
    ELSE IF vec[i].internal_id = id THEN i
    ELSE FindInternalId(vec, id, i + 1)

\* mutant: the capability is not checked
WsRequestCalls_NoCheck(request) ==
    LET idx == FindInternalId(workspaces, request.id, 1) IN
    IF idx # 0
    THEN <<[call |-> "activate", handle |-> workspaces[idx].handle]>>
    ELSE <<>>

WsRequestCalls(request) ==
    LET idx == FindInternalId(workspaces, request.id, 1) IN
    IF idx # 0 /\ BitSet(workspaces[idx].capabilities, 1)
    THEN <<[call |-> "activate", handle |-> workspaces[idx].handle]>>
    ELSE <<>>

RECURSIVE WsDrainCalls(_)
WsDrainCalls(reqs) ==
    IF reqs = <<>> THEN <<>>
    ELSE WsRequestCalls(Head(reqs)) \o WsDrainCalls(Tail(reqs))

\* mutant: needs_commit is not consulted
IterationCalls_AlwaysCommit(reqs) ==
    WsDrainCalls(reqs) \o <<Commit>> \o <<Flush>>

\* the calls of one iteration up to conn.flush (workspaces.rs 324-345):
\* needs_commit is set by every activate; state.manager is Some throughout
IterationCalls(reqs) ==
    WsDrainCalls(reqs)
        \o (IF WsDrainCalls(reqs) # <<>> THEN <<Commit>> ELSE <<>>)
        \o <<Flush>>

\* top of the loop: drain, commit, flush, then the first dispatch_pending
WsDrain ==
    /\ watcher = "workspace"
    /\ ws_pc = "drain"
    /\ ws_calls' = [requests |-> ws_requests,
                     calls |-> IterationCalls(ws_requests)]
    /\ ws_requests' = <<>>
    /\ ws_pc' = "dispatch1"
    /\ UNCHANGED <<watcher, stale, assigned, wire, asked, workspaces, groups, next_workspace_id,
                   next_group_id, next_serial, finished, ws_events, ws_blocked,
                   entries, ws_obj, grp_obj, ws_member, ws_last, ws_step, tlVars>>

\* mutant: state.finished is not looked at
WsCheckFinished_NoBreak ==
    /\ watcher = "workspace"
    /\ ws_pc = "dispatch1"
    /\ ws_blocked = None
    /\ ws_pc' = "wait"
    /\ UNCHANGED <<watcher, stale, assigned, wire, asked, workspaces, groups, next_workspace_id,
                   next_group_id, next_serial, finished, ws_events,
                   ws_requests, ws_blocked, entries, ws_obj, grp_obj,
                   ws_member, ws_last, ws_step, ws_calls, tlVars>>

\* the first dispatch_pending returns: break if finished, else go and wait
WsCheckFinished ==
    /\ watcher = "workspace"
    /\ ws_pc = "dispatch1"
    /\ ws_blocked = None
    /\ ws_pc' = IF finished THEN "finished" ELSE "wait"
    /\ UNCHANGED <<watcher, stale, assigned, wire, asked, workspaces, groups, next_workspace_id,
                   next_group_id, next_serial, finished, ws_events,
                   ws_requests, ws_blocked, entries, ws_obj, grp_obj,
                   ws_member, ws_last, ws_step, ws_calls, tlVars>>

\* prepare_read, poll_readable(raw_fd, 50), guard.read: at most 50 ms
WsWait ==
    /\ watcher = "workspace"
    /\ ws_pc = "wait"
    /\ ws_pc' = "dispatch2"
    /\ UNCHANGED <<watcher, stale, assigned, wire, asked, workspaces, groups, next_workspace_id,
                   next_group_id, next_serial, finished, ws_events,
                   ws_requests, ws_blocked, entries, ws_obj, grp_obj,
                   ws_member, ws_last, ws_step, ws_calls, tlVars>>

\* the second dispatch_pending returns: next iteration
WsLoop ==
    /\ watcher = "workspace"
    /\ ws_pc = "dispatch2"
    /\ ws_blocked = None
    /\ ws_pc' = "drain"
    /\ UNCHANGED <<watcher, stale, assigned, wire, asked, workspaces, groups, next_workspace_id,
                   next_group_id, next_serial, finished, ws_events,
                   ws_requests, ws_blocked, entries, ws_obj, grp_obj,
                   ws_member, ws_last, ws_step, ws_calls, tlVars>>

\* a parked blocking_send gets its slot and the caller goes on
WsSendResume ==
    /\ watcher = "workspace"
    /\ ws_blocked # None
    /\ Len(ws_events) < EventCap
    /\ ws_events' = Append(ws_events, ws_blocked[1])
    /\ ws_blocked' = None
    /\ UNCHANGED <<watcher, stale, assigned, wire, asked, workspaces, groups, next_workspace_id,
                   next_group_id, next_serial, finished, ws_requests, ws_pc,
                   entries, ws_obj, grp_obj, ws_member, ws_last, ws_step,
                   ws_calls, tlVars>>

\* ------------------------------------------- workspaces.rs: the GTK side

\* WorkspacesConfig.show_hidden
show_hidden == FALSE

\* ids of the `visible` list the callback stores in entries and builds the
\* buttons from (workspaces.rs 79-127); Unavailable leaves entries alone
EntriesAfter(event) ==
    IF event.kind = "Snapshot"
    THEN {event.list[i].id : i \in {j \in 1..Len(event.list) :
                                      show_hidden \/ ~event.list[j].hidden}}
    ELSE entries

WsRecv ==
    /\ watcher = "workspace"
    /\ ws_events # <<>>
    /\ entries' = EntriesAfter(Head(ws_events))
    /\ ws_events' = Tail(ws_events)
    /\ UNCHANGED <<watcher, stale, assigned, wire, asked, workspaces, groups, next_workspace_id,
                   next_group_id, next_serial, finished, ws_requests, ws_pc,
                   ws_blocked, ws_obj, grp_obj, ws_member, ws_last, ws_step,
                   ws_calls, tlVars>>

\* a click (or scroll) that sends Activate(id) for a workspace shown
WsClick(id) ==
    /\ watcher = "workspace"
    /\ id \in entries
    /\ asked < MaxRequests
    /\ ws_pc \notin {"finished", "unavailable"}
    /\ Len(ws_requests) < RequestCap
    /\ ws_requests' = Append(ws_requests, [kind |-> "Activate", id |-> id])
    /\ asked' = asked + 1
    /\ UNCHANGED <<watcher, stale, assigned, wire, workspaces, groups, next_workspace_id,
                   next_group_id, next_serial, finished, ws_events, ws_pc,
                   ws_blocked, entries, ws_obj, grp_obj, ws_member, ws_last,
                   ws_step, ws_calls, tlVars>>

WsNext ==
    \/ \E ok \in BOOLEAN : WsBind(ok)
    \/ WsRoundtripDone
    \/ WsDrain
    \/ WsCheckFinished
    \/ WsWait
    \/ WsLoop
    \/ WsSendResume
    \/ \E g \in GroupHandles : ManagerWorkspaceGroup(g)
    \/ \E w \in WorkspaceHandles : ManagerWorkspace(w)
    \/ ManagerDone
    \/ WsManagerFinished
    \/ \E g \in GroupHandles, w \in WorkspaceHandles : GroupWorkspaceEnter(g, w)
    \/ \E g \in GroupHandles, w \in WorkspaceHandles : GroupWorkspaceLeave(g, w)
    \/ \E g \in GroupHandles : GroupRemoved(g)
    \/ \E g \in GroupHandles,
          ev \in {"GroupCapabilities", "OutputEnter", "OutputLeave"} : GroupOther(g, ev)
    \/ \E w \in WorkspaceHandles : WorkspaceId(w)
    \/ \E w \in WorkspaceHandles, name \in NameVals : WorkspaceName(w, name)
    \/ \E w \in WorkspaceHandles, c \in CoordinateArrays : WorkspaceCoordinates(w, c)
    \/ \E w \in WorkspaceHandles, s \in WsStateVals : WorkspaceStateEv(w, s)
    \/ \E w \in WorkspaceHandles, c \in CapabilityVals : WorkspaceCapabilities(w, c)
    \/ \E w \in WorkspaceHandles : WorkspaceRemoved(w)
    \/ WsRecv
    \/ \E id \in 1..MaxWorkspaces : WsClick(id)

vars == <<watcher, stale, wire, asked, assigned, tlVars, wsVars>>

\* nothing sent, nothing asked, no id given yet
Start ==
    /\ stale = 0
    /\ wire = 0
    /\ asked = 0
    /\ assigned = [tl |-> <<>>, ws |-> <<>>, grp |-> <<>>]

InitToplevel == watcher = "toplevel" /\ Start /\ TlInit /\ WsInit

SpecToplevel == InitToplevel /\ [][TlNext]_vars

InitWorkspace == watcher = "workspace" /\ Start /\ TlInit /\ WsInit

SpecWorkspace == InitWorkspace /\ [][WsNext]_vars

\* either watcher thread
Init == watcher \in {"toplevel", "workspace"} /\ Start /\ TlInit /\ WsInit

Next == TlNext \/ WsNext

Spec == Init /\ [][Next]_vars

\* the watcher thread of the module shown has not returned
Running ==
    IF watcher = "toplevel" THEN tl_pc # "failed"
    ELSE ws_pc \notin {"finished", "unavailable"}

\* the reload callback (app.rs 96-117): bar.clear() removes the widgets and
\* populate_bar calls build again, which makes new channels and spawns a
\* new watcher thread on a new connection; nothing tells the thread of the
\* cleared module to return
Reload ==
    /\ stale < MaxReloads
    /\ stale' = IF Running THEN stale + 1 ELSE stale
    /\ watcher' = watcher
    /\ wire' = 0
    /\ asked' = 0
    /\ assigned' = [tl |-> <<>>, ws |-> <<>>, grp |-> <<>>]
    /\ handles' = <<>>
    /\ next_id' = 1
    /\ tl_events' = <<>>
    /\ tl_requests' = <<>>
    /\ tl_pc' = "bind"
    /\ tl_blocked' = None
    /\ tl_got' = FALSE
    /\ buttons' = {}
    /\ tl_obj' = [h \in ToplevelHandles |-> "none"]
    /\ tl_fin' = FALSE
    /\ tl_last' = [h \in ToplevelHandles |->
                     [title |-> None, app_id |-> None, focused |-> None]]
    /\ tl_step' = [ev |-> "none", h |-> 0, id |-> 0, sent |-> <<>>]
    /\ tl_calls' = [requests |-> <<>>, calls |-> <<>>]
    /\ tl_news' = [i \in 1..MaxToplevels |-> 0]
    /\ tl_log' = <<>>
    /\ workspaces' = <<>>
    /\ groups' = <<>>
    /\ next_workspace_id' = 1
    /\ next_group_id' = 1
    /\ next_serial' = 1
    /\ finished' = FALSE
    /\ ws_events' = <<>>
    /\ ws_requests' = <<>>
    /\ ws_pc' = "bind"
    /\ ws_blocked' = None
    /\ entries' = {}
    /\ ws_obj' = [w \in WorkspaceHandles |-> "none"]
    /\ grp_obj' = [g \in GroupHandles |-> "none"]
    /\ ws_member' = [w \in WorkspaceHandles |-> {}]
    /\ ws_last' = [w \in WorkspaceHandles |->
                     [name |-> None, state |-> None, group |-> None,
                     entered |-> None]]
    /\ ws_step' = [ev |-> "none", h |-> 0, sent |-> <<>>]
    /\ ws_calls' = [requests |-> <<>>, calls |-> <<>>]

SpecReload == Init /\ [][Next \/ Reload]_vars

\* the state the workspace watcher is in when, during the roundtrip, the
\* compositor has announced group 1 and workspace 1 and the workspace has
\* entered the group; MoveEvents more events may follow
InitMoved ==
    /\ watcher = "workspace"
    /\ stale = 0
    /\ wire = MaxEvents - MoveEvents
    /\ asked = 0
    /\ assigned = [tl |-> <<>>, ws |-> <<Given(1, 1)>>, grp |-> <<Given(1, 1)>>]
    /\ TlInit
    /\ workspaces = <<[NewWorkspaceState(1, 1, 1) EXCEPT !.group_id = Some(1)]>>
    /\ groups = <<NewWorkspaceGroupState(1, 1)>>
    /\ next_workspace_id = 2
    /\ next_group_id = 2
    /\ next_serial = 2
    /\ finished = FALSE
    /\ ws_events = <<>>
    /\ ws_requests = <<>>
    /\ ws_pc = "roundtrip"
    /\ ws_blocked = None
    /\ entries = {}
    /\ ws_obj = [w \in WorkspaceHandles |-> IF w = 1 THEN "live" ELSE "none"]
    /\ grp_obj = [g \in GroupHandles |-> IF g = 1 THEN "live" ELSE "none"]
    /\ ws_member = [w \in WorkspaceHandles |-> IF w = 1 THEN {1} ELSE {}]
    /\ ws_last = [w \in WorkspaceHandles |->
                    [name |-> None, state |-> None,
                     group |-> IF w = 1 THEN Some(1) ELSE None,
                     entered |-> IF w = 1 THEN Some(1) ELSE None]]
    /\ ws_step = [ev |-> "WorkspaceEnter", h |-> 1, sent |-> <<>>]
    /\ ws_calls = [requests |-> <<>>, calls |-> <<>>]

\* the workspace watcher from construction, or from InitMoved so that the
\* events of a run reach a move of the workspace to a second group
SpecMove == (InitWorkspace \/ InitMoved) /\ [][WsNext]_vars

\* the steps run_toplevel_watcher takes by itself: it runs whenever it is
\* not blocked in a call
TlThread ==
    \/ \E ok \in BOOLEAN : TlBind(ok)
    \/ TlRoundtripDone
    \/ TlDrain
    \/ TlDispatchReturn
    \/ TlSendResume

\* the steps run_workspace_watcher takes by itself
WsThread ==
    \/ \E ok \in BOOLEAN : WsBind(ok)
    \/ WsRoundtripDone
    \/ WsDrain
    \/ WsCheckFinished
    \/ WsWait
    \/ WsLoop
    \/ WsSendResume

\* the watcher threads and the GTK main loop keep running; the compositor
\* and the user are under no obligation to do anything
Fairness ==
    /\ WF_vars(TlThread)
    /\ WF_vars(TlRecv)
    /\ WF_vars(WsThread)
    /\ WF_vars(WsRecv)

SpecToplevelLive == SpecToplevel /\ Fairness

SpecWorkspaceLive == SpecWorkspace /\ Fairness

SpecLive == Spec /\ Fairness

\* ------------------------------------------------------------ properties

\* value of an Option, or `default` when it is None
OrElse(opt, default) == IF opt = None THEN default ELSE opt[1]

\* the list of the Snapshot the last Done sent
SentList == ws_step.sent[1].list

\* C1: the ToplevelInfo sent at a Done for handle H carries, for title,
\* app_id and focused, the value of the last Title, AppId and State event
\* received for H (empty / false when none was received), also when the
\* State event came before the first Title or AppId.
C1_DoneCarriesLastValues ==
    (tl_step.ev = "Done" /\ tl_step.sent # <<>>) =>
        LET info == tl_step.sent[1].info
            last == tl_last[tl_step.h] IN
        /\ info.title = OrElse(last.title, "")
        /\ info.app_id = OrElse(last.app_id, "")
        /\ info.focused = OrElse(last.focused, FALSE)

\* C2: the Snapshot sent at a manager Done reports, for every workspace not
\* removed, the name, the active/urgent/hidden flags and the group of the
\* last Name, State and WorkspaceEnter/WorkspaceLeave event received for it
\* (empty name, no flag, group 0 when none was received), whether or not
\* they were touched since the previous Done.
C2_SnapshotCarriesLastValues ==
    ws_step.ev = "Done" =>
        \A w \in WorkspaceHandles :
            ws_obj[w] = "live" =>
                LET last == ws_last[w]
                    bits == OrElse(last.state, 0) IN
                \E j \in 1..Len(SentList) :
                    /\ SentList[j].id = IdGiven(assigned.ws, w)
                    /\ SentList[j].name = OrElse(last.name, "")
                    /\ SentList[j].active = (bits \in {1, 3, 5, 7})
                    /\ SentList[j].urgent = (bits \in {2, 3, 6, 7})
                    /\ SentList[j].hidden = (bits \in {4, 5, 6, 7})
                    /\ SentList[j].group = OrElse(last.group, 0)

\* a second snapshot (the first one built the buttons) in which workspace 1
\* is named, entered group 1 and has become urgent and hidden
C2_Witness ==
    /\ ws_step.ev = "Done"
    /\ entries = {1}
    /\ Len(SentList) = 1
    /\ SentList[1].name \in NameVals
    /\ SentList[1].urgent /\ SentList[1].hidden /\ ~SentList[1].active

\* C3: for each handle the first Done with a non-empty app_id sends exactly
\* one New, every later Done sends exactly one Update with the same id, and
\* Closed removes the entry and sends Remove with that id; no id gets a
\* second New and no Update precedes the New of its id.
C3_Lifecycle ==
    /\ \A i \in 1..MaxToplevels : tl_news[i] <= 1
    /\ (tl_step.ev = "Done" /\ tl_step.id # 0) =>
          LET idx == FindId(handles, tl_step.id)
              sent == tl_step.sent IN
          /\ idx # 0
          /\ handles[idx].handle = tl_step.h
          /\ Len(sent) <= 1
          /\ (handles[idx].pending_app_id # "" \/ tl_news[tl_step.id] = 1) =>
                /\ Len(sent) = 1
                /\ sent[1].kind \in {"New", "Update"}
                /\ sent[1].info.id = tl_step.id
          /\ (sent # <<>> /\ sent[1].kind = "Update") =>
                handles[idx].initial_done /\ tl_news[tl_step.id] = 1
          /\ (sent # <<>> /\ sent[1].kind = "New") =>
                handles[idx].initial_done /\ sent[1].info.app_id # ""
          /\ sent = <<>> => tl_news[tl_step.id] = 0
    /\ (tl_step.ev = "Closed" /\ tl_step.id # 0) =>
          /\ tl_step.sent = <<Remove(tl_step.id)>>
          /\ FindId(handles, tl_step.id) = 0
          /\ Position(handles, tl_step.h) = 0

\* New was delivered, the Update of a later Done and the Remove of the
\* Closed that followed are queued behind it in that order
C3_Witness ==
    /\ tl_step.ev = "Closed"
    /\ buttons = {1}
    /\ tl_news[1] = 1
    /\ Len(tl_events) = 2
    /\ tl_events[1].kind = "Update" /\ tl_events[1].info.id = 1
    /\ tl_events[2] = Remove(1)
    /\ tl_blocked = None

\* every ToplevelEvent sent and not yet consumed
ToplevelEventsInFlight ==
    {tl_events[i] : i \in 1..Len(tl_events)}
        \cup {tl_blocked[i] : i \in 1..Len(tl_blocked)}
        \cup {tl_step.sent[i] : i \in 1..Len(tl_step.sent)}

\* C4: every New event has a non-empty app_id, and a Done for an entry whose
\* app_id is empty and that has had no New sends nothing at all.
C4_EmptyAppIdSuppressed ==
    /\ \A e \in ToplevelEventsInFlight : e.kind = "New" => e.info.app_id # ""
    /\ (tl_step.ev = "Done" /\ tl_step.id # 0) =>
          LET idx == FindId(handles, tl_step.id) IN
          (idx # 0 /\ handles[idx].pending_app_id = ""
                   /\ ~handles[idx].initial_done) => tl_step.sent = <<>>

\* a Done on a registered entry (it has a title) whose app_id is empty
C4_Witness ==
    /\ tl_step.ev = "Done"
    /\ tl_step.id # 0
    /\ tl_step.sent = <<>>
    /\ \E i \in 1..Len(handles) :
          /\ handles[i].id = tl_step.id
          /\ handles[i].pending_app_id = ""
          /\ handles[i].pending_title # ""

\* the ids of `given` grow strictly in the order they were given
StrictlyIncreasing(given) ==
    \A i, j \in 1..Len(given) : i < j => given[i].id < given[j].id

\* C5: in both watchers every new entry gets an id greater than every id
\* given before it in its registry (toplevels, workspaces, groups), so the
\* ids ever given are pairwise distinct, removed entries included, and an
\* entry keeps the id it was created with.
C5_IdsNeverReused ==
    /\ StrictlyIncreasing(assigned.tl)
    /\ StrictlyIncreasing(assigned.ws)
    /\ StrictlyIncreasing(assigned.grp)
    /\ \A i \in 1..Len(handles) :
          handles[i].id = IdGiven(assigned.tl, handles[i].handle)
    /\ \A i \in 1..Len(workspaces) :
          workspaces[i].internal_id = IdGiven(assigned.ws, workspaces[i].handle)
    /\ \A i \in 1..Len(groups) :
          groups[i].id = IdGiven(assigned.grp, groups[i].handle)

\* workspace 1 was removed and purged before workspace 2 was announced
C5_Witness ==
    /\ ws_obj[1] = "removed"
    /\ Len(workspaces) = 1
    /\ workspaces[1].handle = 2
    /\ workspaces[1].internal_id = 2
    /\ Len(assigned.ws) = 2
    /\ ws_step.ev = "Workspace"

\* C6: a workspace whose Removed event has been processed is in no Snapshot
\* sent afterwards.
C6_RemovedNotInSnapshot ==
    ws_step.ev = "Done" =>
        \A w \in WorkspaceHandles :
            ws_obj[w] = "removed" =>
                \A j \in 1..Len(SentList) :
                    SentList[j].id # IdGiven(assigned.ws, w)

\* a Done after workspace 1 was removed while workspace 2 stays
C6_Witness ==
    /\ ws_step.ev = "Done"
    /\ ws_obj[1] = "removed"
    /\ ws_obj[2] = "live"
    /\ Len(SentList) = 1

\* a < b in the lexicographic order of sequences of numbers
LexLess(a, b) ==
    \E k \in 0..Len(a) :
        /\ k <= Len(b)
        /\ \A i \in 1..k : a[i] = b[i]
        /\ \/ k = Len(a) /\ k < Len(b)
           \/ k < Len(a) /\ k < Len(b) /\ a[k + 1] < b[k + 1]

\* the registry entry a WorkspaceInfo was built from
EntryOf(info) == workspaces[FindInternalId(workspaces, info.id, 1)]

\* C7: a Snapshot lists the groups in ascending id (no group is group 0);
\* inside a group the entries are ordered by coords lexicographically with
\* ties by serial when any entry of the group has coords, else by serial;
\* index counts 1, 2, ... inside each group.
C7_SnapshotOrder ==
    ws_step.ev = "Done" =>
        /\ \A i \in 1..Len(SentList) :
              /\ FindInternalId(workspaces, SentList[i].id, 1) # 0
              /\ SentList[i].group = GroupOf(EntryOf(SentList[i]))
              /\ SentList[i].index =
                    1 + Cardinality({k \in 1..(i - 1) :
                                        SentList[k].group = SentList[i].group})
        /\ \A i, j \in 1..Len(SentList) :
              i < j =>
                 LET a == EntryOf(SentList[i])
                     b == EntryOf(SentList[j])
                     anyCoords ==
                        \E k \in 1..Len(SentList) :
                            /\ SentList[k].group = SentList[i].group
                            /\ EntryOf(SentList[k]).coords # <<>> IN
                 /\ SentList[i].group <= SentList[j].group
                 /\ SentList[i].group = SentList[j].group =>
                       IF anyCoords
                       THEN \/ LexLess(a.coords, b.coords)
                            \/ a.coords = b.coords /\ a.serial < b.serial
                       ELSE a.serial < b.serial

\* coords (1,0) on the first created and (0,0) on the second, one group:
\* the second created is listed first
C7_Witness ==
    /\ ws_step.ev = "Done"
    /\ Len(SentList) = 2
    /\ SentList[1].id = 2 /\ SentList[1].index = 1
    /\ SentList[2].id = 1 /\ SentList[2].index = 2
    /\ SentList[1].group = SentList[2].group
    /\ EntryOf(SentList[1]).coords = <<0, 0>>
    /\ EntryOf(SentList[2]).coords = <<1, 0>>

\* C8: in both watchers a send on a full events channel returns at once and
\* the event is dropped; the watcher thread is never suspended waiting for
\* the consumer.
C8_SendNeverBlocks ==
    /\ tl_blocked = None
    /\ ws_blocked = None

\* C9: a Close(id) for a toplevel whose recorded capabilities lack the close
\* bit issues no close call on its handle.
C9_CloseNeedsCapability ==
    \A k \in 1..Len(tl_calls.calls) :
        tl_calls.calls[k].call = "close" =>
            "close" \in HandleCapabilities(tl_calls.calls[k].handle)

\* the calls of `calls` that activate the handle h
Activations(calls, h) ==
    {k \in 1..Len(calls) : calls[k] = [call |-> "activate", handle |-> h]}

\* C10: a drain issues no activate on a workspace whose capabilities lack
\* bit 1, commits only if it issued some activate, and produces no event.
C10_ActivateNeedsCapability ==
    [][(ws_pc = "drain" /\ ws_pc' = "dispatch1") =>
          /\ \A i \in 1..Len(workspaces) :
                workspaces[i].capabilities % 2 = 0 =>
                    Activations(ws_calls'.calls, workspaces[i].handle) = {}
          /\ (\A w \in WorkspaceHandles : Activations(ws_calls'.calls, w) = {}) =>
                \A k \in 1..Len(ws_calls'.calls) : ws_calls'.calls[k] # Commit
          /\ ws_events' = ws_events
          /\ ws_blocked' = ws_blocked
          /\ ws_step' = ws_step]_vars

\* the drain just took Activate(1) while workspace 1 offers deactivate only:
\* nothing but the flush was called
C10_Witness ==
    /\ ws_pc = "dispatch1"
    /\ ws_calls.requests = <<[kind |-> "Activate", id |-> 1]>>
    /\ ws_calls.calls = <<Flush>>
    /\ \E i \in 1..Len(workspaces) :
          workspaces[i].internal_id = 1 /\ workspaces[i].capabilities = 2

\* the one event of the unsupported-compositor path
NotSupported == Unavailable("ext_workspace_v1 not supported by compositor")

\* C11: when the bind of the workspace manager fails, exactly one
\* Unavailable event whose reason says "not supported" is sent, nothing is
\* sent after it, and the watcher has returned without a roundtrip or a
\* loop iteration: from then on the channel only loses that event to the
\* consumer, no protocol event is dispatched and no request is drained.
C11_UnavailableOnceThenNothing ==
    [][/\ ws_pc = "bind" =>
             \/ ws_pc' = "roundtrip" /\ ws_events' = <<>> /\ ws_blocked' = None
             \/ ws_pc' = "unavailable" /\ ws_events' = <<NotSupported>>
                                       /\ ws_blocked' = None
             \/ ws_pc' = "bind"
       /\ ws_pc = "unavailable" =>
             /\ ws_pc' = "unavailable"
             /\ ws_blocked' = None
             /\ ws_events' = <<>>
             /\ ws_events \in {<<>>, <<NotSupported>>}
             /\ wire' = 0
             /\ ws_step' = [ev |-> "none", h |-> 0, sent |-> <<>>]
             /\ ws_calls' = [requests |-> <<>>, calls |-> <<>>]
             /\ workspaces' = <<>> /\ groups' = <<>>
       /\ (\E i \in 1..Len(ws_events') : ws_events'[i].kind = "Unavailable") =>
             ws_pc' = "unavailable"]_vars

\* the bind failed and the GTK side has consumed the Unavailable event
C11_Witness ==
    /\ ws_pc = "unavailable"
    /\ ws_events = <<>>
    /\ ws_blocked = None
    /\ entries = {}

\* C12: when the bind of the toplevel manager fails, the failure is reported
\* exactly once with its reason (the Err that build logs) and the watcher has
\* returned: no roundtrip, no loop iteration, no second attempt, no event,
\* no suspended send.
C12_BindFailureReportedOnce ==
    [][/\ tl_pc = "bind" =>
             \/ tl_pc' = "roundtrip" /\ tl_log' = <<>>
             \/ tl_pc' = "failed" /\ Len(tl_log') = 1
                                  /\ tl_log'[1].reason = NotPresent
             \/ tl_pc' = "bind"
       /\ tl_pc = "failed" =>
             /\ tl_pc' = "failed"
             /\ tl_log' = tl_log
             /\ Len(tl_log) = 1
             /\ tl_blocked' = None
             /\ tl_events' = <<>>
             /\ wire' = 0
             /\ tl_calls' = [requests |-> <<>>, calls |-> <<>>]
             /\ handles' = <<>>
       /\ tl_pc' # "failed" => tl_log' = <<>>]_vars

\* the bind failed: one report, nothing dispatched, nothing drained
C12_Witness ==
    /\ tl_pc = "failed"
    /\ Len(tl_log) = 1
    /\ tl_log[1].reason = NotPresent
    /\ wire = 0

\* C13: once the manager's Finished has been dispatched, the workspace loop
\* never enters the wait for protocol input again, the next termination
\* check breaks out of the loop, the thread then stays returned, and
\* eventually gets there; the loop exits on nothing but Finished.
C13_FinishedEndsLoop ==
    /\ [][ /\ finished' => ws_pc' # "wait"
           /\ (finished /\ ws_pc = "dispatch1" /\ ws_pc' # "dispatch1") =>
                 ws_pc' = "finished"
           /\ (finished /\ ws_pc = "dispatch2") => ws_pc' \in {"dispatch2", "drain"}
           /\ (finished /\ ws_pc = "drain") => ws_pc' \in {"drain", "dispatch1"}
           /\ ws_pc' = "finished" => finished' /\ ws_step'.ev = "Finished"
           /\ ws_pc = "finished" => ws_pc' = "finished"
           /\ (~finished /\ ws_pc = "dispatch1" /\ ws_pc' # "dispatch1") =>
                 ws_pc' = "wait" ]_vars
    /\ finished ~> (ws_pc = "finished")

\* Finished arrived while the loop was in its second dispatch_pending or
\* later (a request was drained before), and the thread has returned
C13_Witness ==
    /\ ws_pc = "finished"
    /\ finished
    /\ Len(workspaces) = 2
    /\ ws_calls.requests # <<>>

\* C14: once the toplevel manager's Finished has been dispatched, the
\* toplevel loop exits: the thread never again goes through the top of the
\* loop into blocking_dispatch.
C14_FinishedEndsLoop ==
    [][tl_fin => ~(tl_pc = "drain" /\ tl_pc' = "dispatch")]_vars

\* C15: in each watcher a request that is queued while the thread waits for
\* protocol input is eventually drained, whatever the compositor does.
C15_RequestsNotStarved ==
    /\ (tl_pc = "dispatch" /\ tl_requests # <<>>) ~> (tl_requests = <<>>)
    /\ (ws_pc = "wait" /\ ws_requests # <<>>) ~> (ws_requests = <<>>)

\* C16: a State event whose array is not a whole number of 4-byte words
\* leaves the entry of its handle with focused = false.
C16_MalformedStateIsEmpty ==
    [][\A h \in ToplevelHandles, wl_state \in StateArrays :
          (/\ Len(wl_state) % 4 # 0
           /\ Position(handles, h) # 0
           /\ HandleState(h, wl_state)) =>
              handles'[Position(handles, h)].pending_focused = FALSE]_vars


\* the requests of `reqs` whose id is the id of an entry of the registry
Known(reqs, ids) == {k \in 1..Len(reqs) : reqs[k].id \in ids}

\* the handles of the entries whose id some request of `reqs` names
Targets(reqs, vec, ids) ==
    {vec[i].handle : i \in {j \in 1..Len(vec) :
                               \E k \in 1..Len(reqs) : reqs[k].id = ids[j]}}

\* C17: a drain turns a request whose id is in no registry entry into
\* nothing: every call it makes is on the handle of an entry a request
\* names, there are no more calls than requests with a known id, a drain of
\* unknown ids alone calls nothing but the flush (no commit), and no drain
\* sends an event or changes the registry.
C17_UnknownIdIsNoOp ==
    [][ /\ (tl_pc = "drain" /\ tl_pc' = "dispatch") =>
              LET ids == [i \in 1..Len(handles) |-> handles[i].id]
                  known == Known(tl_requests, {ids[i] : i \in 1..Len(ids)})
                  calls == tl_calls'.calls IN
              /\ Len(calls) = Cardinality(known) + 1
              /\ calls[Len(calls)] = Flush
              /\ \A k \in 1..(Len(calls) - 1) :
                    calls[k].handle \in Targets(tl_requests, handles, ids)
              /\ handles' = handles /\ next_id' = next_id
              /\ tl_events' = tl_events /\ tl_blocked' = tl_blocked
        /\ (ws_pc = "drain" /\ ws_pc' = "dispatch1") =>
              LET ids == [i \in 1..Len(workspaces) |-> workspaces[i].internal_id]
                  known == Known(ws_requests, {ids[i] : i \in 1..Len(ids)})
                  calls == ws_calls'.calls
                  acts == {k \in 1..Len(calls) : calls[k].call = "activate"} IN
              /\ Cardinality(acts) <= Cardinality(known)
              /\ \A k \in acts :
                    calls[k].handle \in Targets(ws_requests, workspaces, ids)
              /\ known = {} => calls = <<Flush>>
              /\ workspaces' = workspaces /\ groups' = groups
              /\ ws_events' = ws_events /\ ws_blocked' = ws_blocked ]_vars

\* the button of toplevel 1 was clicked after its Closed had emptied the
\* registry: the drain took the request and called nothing but the flush
C17_Witness ==
    /\ tl_pc = "dispatch"
    /\ tl_calls.requests # <<>>
    /\ tl_calls.calls = <<Flush>>
    /\ handles = <<>>
    /\ tl_obj[1] = "closed"

\* C18: a drain issues no activate on the handle of a workspace whose
\* Removed event has been processed, purged or only flagged.
C18_RemovedNotActivated ==
    [][(ws_pc = "drain" /\ ws_pc' = "dispatch1") =>
          \A w \in WorkspaceHandles :
              ws_obj[w] = "removed" => Activations(ws_calls'.calls, w) = {}]_vars

\* the entries of vec flagged removed
Flagged(vec) == {i \in 1..Len(vec) : vec[i].removed}

\* C19: an entry flagged removed stays in the registry until a manager Done
\* is handled, the snapshot of that Done leaves it out, the registry loses
\* entries only at a Done whose snapshot has been put on the events channel,
\* and when the Done has been handled no flagged entry remains.
C19_PurgeAfterSnapshotSent ==
    [][ /\ ~(ws_step'.ev = "Done" /\ wire' = wire + 1) =>
              /\ \A i \in 1..Len(workspaces) :
                    Len(workspaces') >= i /\ workspaces'[i].handle = workspaces[i].handle
              /\ \A i \in 1..Len(groups) :
                    Len(groups') >= i /\ groups'[i].handle = groups[i].handle
        /\ (ws_step'.ev = "Done" /\ wire' = wire + 1) =>
              /\ \A i \in Flagged(workspaces) :
                    \A j \in 1..Len(ws_step'.sent[1].list) :
                        ws_step'.sent[1].list[j].id # workspaces[i].internal_id
              /\ ws_blocked' # None =>
                    workspaces' = workspaces /\ groups' = groups
              /\ ws_blocked' = None =>
                    Flagged(workspaces') = {} /\ Flagged(groups') = {} ]_vars

\* C20: the events channel of each watcher is a queue between the dispatch
\* loop and the callback: a step leaves it alone, or puts the one event
\* being sent behind those waiting (an event held by a suspended send goes
\* in before any later one), or takes the oldest event out and runs the
\* callback once on exactly that event.
C20_EventFifo ==
    [][ /\ \/ tl_events' = tl_events /\ buttons' = buttons
           \/ /\ tl_blocked = None /\ tl_blocked' = None
              /\ wire' = wire + 1
              /\ Len(tl_step'.sent) = 1
              /\ tl_events' = Append(tl_events, tl_step'.sent[1])
              /\ buttons' = buttons
           \/ /\ tl_blocked # None /\ tl_blocked' = None
              /\ tl_events' = Append(tl_events, tl_blocked[1])
              /\ buttons' = buttons
           \/ /\ tl_events # <<>>
              /\ tl_events' = Tail(tl_events)
              /\ buttons' = ButtonsAfter(Head(tl_events))
              /\ tl_blocked' = tl_blocked
        /\ tl_blocked # None => tl_blocked' \in {tl_blocked, None}
        /\ \/ ws_events' = ws_events /\ entries' = entries
           \/ /\ ws_blocked = None /\ ws_blocked' = None
              /\ wire' = wire + 1
              /\ Len(ws_step'.sent) = 1
              /\ ws_events' = Append(ws_events, ws_step'.sent[1])
              /\ entries' = entries
           \/ /\ ws_pc = "bind" /\ ws_pc' = "unavailable"
              /\ ws_events' = Append(ws_events, NotSupported)
              /\ entries' = entries
           \/ /\ ws_blocked # None /\ ws_blocked' = None
              /\ ws_events' = Append(ws_events, ws_blocked[1])
              /\ entries' = entries
           \/ /\ ws_events # <<>>
              /\ ws_events' = Tail(ws_events)
              /\ entries' = EntriesAfter(Head(ws_events))
              /\ ws_blocked' = ws_blocked
        /\ ws_blocked # None => ws_blocked' \in {ws_blocked, None} ]_vars

\* three events of one toplevel were sent and none delivered yet: New and
\* Update wait in the channel in that order, the Remove is held by the send
C20_Witness ==
    /\ Len(tl_events) = 2
    /\ tl_events[1].kind = "New"
    /\ tl_events[2].kind = "Update"
    /\ tl_blocked = <<Remove(1)>>
    /\ buttons = {}

\* the call is what the request asks for on the entry of vec that has its id
Translates(call, request, vec, ids) ==
    \E i \in 1..Len(vec) :
        /\ ids[i] = request.id
        /\ call.handle = vec[i].handle
        /\ call.call = IF request.kind = "Activate" THEN "activate" ELSE "close"

\* the calls are translations of requests of reqs, taken in the order of reqs
InRequestOrder(calls, reqs, vec, ids) ==
    \E f \in [1..Len(calls) -> 1..Len(reqs)] :
        /\ \A k \in 1..Len(calls) : Translates(calls[k], reqs[f[k]], vec, ids)
        /\ \A j, k \in 1..Len(calls) : j < k => f[j] < f[k]

\* C21: a request channel only grows at its tail, one submitted request at
\* a time, and is emptied whole by a drain; the drain's protocol calls are
\* the translations of the requests it took, in the order they were
\* submitted, and they all come before the drain's flush, which comes before
\* the thread dispatches incoming events.
C21_RequestOrder ==
    [][ /\ \/ tl_requests' = tl_requests
           \/ /\ Len(tl_requests') = Len(tl_requests) + 1
              /\ SubSeq(tl_requests', 1, Len(tl_requests)) = tl_requests
              /\ asked' = asked + 1
           \/ /\ tl_pc = "drain" /\ tl_pc' = "dispatch"
              /\ tl_requests' = <<>>
        /\ (tl_pc = "drain" /\ tl_pc' = "dispatch") =>
              LET calls == tl_calls'.calls
                  ids == [i \in 1..Len(handles) |-> handles[i].id] IN
              /\ tl_requests' = <<>>
              /\ tl_calls'.requests = tl_requests
              /\ calls[Len(calls)] = Flush
              /\ InRequestOrder(SubSeq(calls, 1, Len(calls) - 1),
                                tl_requests, handles, ids)
        /\ tl_pc' = "dispatch" => tl_pc \in {"drain", "dispatch"}
        /\ \/ ws_requests' = ws_requests
           \/ /\ Len(ws_requests') = Len(ws_requests) + 1
              /\ SubSeq(ws_requests', 1, Len(ws_requests)) = ws_requests
              /\ asked' = asked + 1
           \/ /\ ws_pc = "drain" /\ ws_pc' = "dispatch1"
              /\ ws_requests' = <<>>
        /\ (ws_pc = "drain" /\ ws_pc' = "dispatch1") =>
              LET calls == ws_calls'.calls
                  ids == [i \in 1..Len(workspaces) |-> workspaces[i].internal_id]
                  acts == SelectSeq(calls, LAMBDA c : c.call = "activate") IN
              /\ ws_requests' = <<>>
              /\ ws_calls'.requests = ws_requests
              /\ calls[Len(calls)] = Flush
              /\ InRequestOrder(acts, ws_requests, workspaces, ids)
        /\ ws_pc' = "dispatch1" => ws_pc \in {"drain", "dispatch1"} ]_vars

\* the user clicked Activate and then Close on toplevel 1 before a drain:
\* the drain activated, then closed, then flushed
C21_Witness ==
    /\ tl_pc = "dispatch"
    /\ tl_calls.requests = <<[kind |-> "Activate", id |-> 1],
                             [kind |-> "Close", id |-> 1]>>
    /\ Len(tl_calls.calls) = 3
    /\ tl_calls.calls[1].call = "activate"
    /\ tl_calls.calls[2].call = "close"
    /\ tl_calls.calls[3] = Flush

\* C22: the dispatch of a manager Done hands exactly one Snapshot to the
\* send (it is queued or held by the suspended send), and the dispatch of
\* any other manager, group or workspace event sends nothing.
C22_SnapshotOnlyAtDone ==
    [][wire' = wire + 1 =>
          IF ws_step'.ev = "Done"
          THEN /\ Len(ws_step'.sent) = 1
               /\ ws_step'.sent[1].kind = "Snapshot"
               /\ \/ /\ ws_events' = Append(ws_events, ws_step'.sent[1])
                     /\ ws_blocked' = None
                  \/ /\ ws_events' = ws_events
                     /\ ws_blocked' = ws_step'.sent
          ELSE /\ ws_events' = ws_events
               /\ ws_blocked' = None
               /\ ws_blocked = None ]_vars

\* a snapshot waits in the channel and a Removed and a Finished dispatched
\* after its Done have added nothing to it
C22_Witness ==
    /\ ws_step.ev = "Finished"
    /\ ws_obj[1] = "removed"
    /\ Len(ws_events) = 1
    /\ ws_events[1].kind = "Snapshot"
    /\ Len(ws_events[1].list) = 1
    /\ ws_blocked = None

\* the array holds the word 2 (activated) at a word boundary
HasActivated(wl_state) ==
    \E i \in 0..((Len(wl_state) \div 4) - 1) :
        /\ wl_state[4 * i + 1] = 2
        /\ wl_state[4 * i + 2] = 0
        /\ wl_state[4 * i + 3] = 0
        /\ wl_state[4 * i + 4] = 0

\* C23: a State event with an array of whole words, for a handle that has
\* an entry, leaves the entry focused exactly when one of the words is
\* activated, whatever the other words are and whatever focused was before,
\* and changes nothing else of the entry.
C23_FocusedIffActivated ==
    [][\A h \in ToplevelHandles, wl_state \in StateArrays :
          (/\ Len(wl_state) % 4 = 0
           /\ Position(handles, h) # 0
           /\ HandleState(h, wl_state)) =>
              LET idx == Position(handles, h) IN
              /\ handles'[idx].pending_focused = HasActivated(wl_state)
              /\ handles' = [handles EXCEPT
                               ![idx].pending_focused = HasActivated(wl_state)] ]_vars

\* toplevel 1 was announced as focused (its New waits in the channel) and a
\* later State without activated has reset focused
C23_Witness ==
    /\ tl_step.ev = "State"
    /\ tl_step.id = 1
    /\ Len(handles) = 1
    /\ ~handles[1].pending_focused
    /\ handles[1].initial_done
    /\ Len(tl_events) = 1
    /\ tl_events[1].kind = "New"
    /\ tl_events[1].info.focused

\* the positions of calls that hold the call named
CallsOf(calls, name) == {k \in 1..Len(calls) : calls[k].call = name}

\* C24: in an iteration of the workspace loop commit is called at most
\* once, exactly when the drain issued some activate, after every activate
\* and right before the flush that ends the iteration's calls.
C24_CommitBatching ==
    [][(ws_pc = "drain" /\ ws_pc' = "dispatch1") =>
          LET calls == ws_calls'.calls IN
          /\ Cardinality(CallsOf(calls, "commit")) <= 1
          /\ (CallsOf(calls, "commit") # {}) <=> (CallsOf(calls, "activate") # {})
          /\ \A a \in CallsOf(calls, "activate"), c \in CallsOf(calls, "commit") :
                a < c
          /\ CallsOf(calls, "flush") = {Len(calls)}
          /\ \A c \in CallsOf(calls, "commit") : c = Len(calls) - 1 ]_vars

\* two Activate requests were drained in one iteration: two activates, one
\* commit, the flush
C24_Witness ==
    /\ ws_pc = "dispatch1"
    /\ Len(ws_calls.requests) = 2
    /\ Len(ws_calls.calls) = 4
    /\ ws_calls.calls[1].call = "activate"
    /\ ws_calls.calls[2].call = "activate"
    /\ ws_calls.calls[3] = Commit
    /\ ws_calls.calls[4] = Flush

\* watcher threads of the module that have not returned
LiveThreads == stale + (IF Running THEN 1 ELSE 0)

\* C25: the module has one live watcher thread, never more, also after a
\* reload has cleared and rebuilt it.
C25_OneWatcherThread ==
    /\ LiveThreads <= 1
    /\ Running => LiveThreads = 1

\* C26: a Closed event sends Remove(id) only for an id whose New was sent.
C26_RemoveOnlyAfterNew ==
    (tl_step.ev = "Closed" /\ tl_step.sent # <<>>) =>
        tl_news[tl_step.sent[1].id] = 1

\* C27: once the manager's Finished has been dispatched by a dispatch step
\* of the loop (the loop has been through a drain before), the thread takes
\* no request from the channel and calls neither activate nor commit.
C27_NoDrainAfterFinished ==
    [][(/\ finished
        /\ ws_calls.calls # <<>>
        /\ ws_pc = "drain" /\ ws_pc' = "dispatch1") =>
          /\ ws_calls'.requests = <<>>
          /\ ws_requests' = ws_requests
          /\ CallsOf(ws_calls'.calls, "activate") = {}
          /\ CallsOf(ws_calls'.calls, "commit") = {} ]_vars

\* the ids of the registry entries not flagged removed
Unflagged(vec) == {vec[i].internal_id : i \in {j \in 1..Len(vec) : ~vec[j].removed}}

\* C28: the Snapshot of a manager Done has one WorkspaceInfo for each
\* workspace that was in the registry and not flagged removed when the Done
\* arrived, no other, and no id twice.
C28_SnapshotComplete ==
    [][(wire' = wire + 1 /\ ws_step'.ev = "Done") =>
          LET list == ws_step'.sent[1].list IN
          /\ {list[j].id : j \in 1..Len(list)} = Unflagged(workspaces)
          /\ Len(list) = Cardinality(Unflagged(workspaces))
          /\ \A j, k \in 1..Len(list) : list[j].id = list[k].id => j = k ]_vars

\* a Done with workspace 1 flagged removed and workspace 2 in no group
\* although a group exists: the snapshot lists workspace 2 alone, in group 0
C28_Witness ==
    /\ ws_step.ev = "Done"
    /\ Len(SentList) = 1
    /\ SentList[1].group = 0
    /\ ws_obj[1] = "removed"
    /\ ws_obj[2] = "live"
    /\ grp_obj[1] = "live"

\* C29: every WorkspaceInfo.group of a Snapshot is 0 or the id of a group
\* that is announced and whose Removed has not been processed.
C29_SnapshotGroupValid ==
    ws_step.ev = "Done" =>
        \A j \in 1..Len(SentList) :
            \/ SentList[j].group = 0
            \/ \E g \in GroupHandles :
                  /\ grp_obj[g] = "live"
                  /\ IdGiven(assigned.grp, g) = SentList[j].group

\* C30: a WorkspaceLeave from a group the workspace is not assigned to
\* leaves its assignment alone, and the Snapshot of a Done reports, for a
\* workspace whose last WorkspaceEnter was into group B and that has left
\* every other group it was in, the id of B.
C30_MoveKeepsGroup ==
    [][ /\ \A g \in GroupHandles, w \in WorkspaceHandles :
              (/\ GroupWorkspaceLeave(g, w)
               /\ Position(groups, g) # 0 /\ WsPosition(w) # 0
               /\ workspaces[WsPosition(w)].group_id
                     # Some(groups[Position(groups, g)].id)) =>
                  workspaces'[WsPosition(w)].group_id
                     = workspaces[WsPosition(w)].group_id
        /\ (wire' = wire + 1 /\ ws_step'.ev = "Done") =>
              \A w \in WorkspaceHandles, g \in GroupHandles :
                  (/\ ws_obj[w] = "live"
                   /\ ws_member[w] = {g}
                   /\ ws_last[w].entered = Some(IdGiven(assigned.grp, g))) =>
                      \E j \in 1..Len(ws_step'.sent[1].list) :
                          /\ ws_step'.sent[1].list[j].id = IdGiven(assigned.ws, w)
                          /\ ws_step'.sent[1].list[j].group
                                = IdGiven(assigned.grp, g) ]_vars


=============================================================================
